---- MODULE Spec2Model ----
(***************************************************************************)
(* A model of the KRDS codec of serde_krds: the serializer of src/src/ser.rs *)
(* and the deserializer of src/src/de.rs, driven by the serde data model.    *)
(*                                                                         *)
(* Bytes are the integers 0..255.  A Rust String is the sequence of its     *)
(* UTF-8 bytes.  An i64 is the record [hi, lo] of its two 32-bit halves     *)
(* (hi the signed upper half, lo the lower half read as a signed i32), so   *)
(* that every 8-byte payload has exactly one value.                         *)
(*                                                                         *)
(* ser.rs names three tags DataType::UTF, ObjectBegin and ObjectEnd that    *)
(* the DataType of lib.rs calls String, FieldBegin and FieldEnd; the model  *)
(* gives them the values 3, -2 and -1 of lib.rs.                            *)
(***************************************************************************)
EXTENDS Integers, Sequences, FiniteSets, TLC

VARIABLES pc, case, output, marks, buf, trail, result

vars == <<pc, case, output, marks, buf, trail, result>>

----------------------------------------------------------------------------
(* Bounds of the model *)

\* the longest run of bytes appended after a complete encoding
MaxTrail == 2
\* the longest run of bytes following a prologue in a buffer with a bad prologue
MaxBadBody == 6
\* the longest run of zero bytes following the first byte of a buffer whose
\* first byte is any byte
MaxTagBody == 2

\* the largest count declared before a body that holds no element
MaxCount == 3

\* the longest of the short strings given to write_str
MaxStrLen == 40

----------------------------------------------------------------------------
(* lib.rs: the tags (DataType::X is DtX) and the prologue *)

DtBoolean == 0
DtInt == 1
DtLong == 2
DtString == 3
DtDouble == 4
DtShort == 5
DtFloat == 6
DtByte == 7
DtChar == 9
DtFieldBegin == -2
DtFieldEnd == -1

DataTypes == {DtBoolean, DtInt, DtLong, DtString, DtDouble, DtShort, DtFloat, DtByte, DtChar, DtFieldBegin, DtFieldEnd}

MAGIC == <<0, 0, 0, 0, 0, 26, 177, 38, 2, 0, 0, 0, 0, 0, 0, 0, 1>>

\* `x as u8` of an i8 or of a tag
AsU8(x) == x % 256

\* `x as i8` of a byte
AsI8(b) == IF b >= 128 THEN b - 256 ELSE b

----------------------------------------------------------------------------
(* Fixed-width big-endian integers *)

\* i16::to_be_bytes / u16::to_be_bytes (two's complement)
Be16(n) == <<(n \div 256) % 256, n % 256>>

\* i32::to_be_bytes
Be32(n) == <<(n \div 16777216) % 256, (n \div 65536) % 256, (n \div 256) % 256, n % 256>>

\* i64::to_be_bytes of [hi, lo]
Be64(v) == Be32(v.hi) \o Be32(v.lo)

\* u16::from_be_bytes
U16FromBe(b) == b[1] * 256 + b[2]

\* i16::from_be_bytes
I16FromBe(b) == AsI8(b[1]) * 256 + b[2]

\* i32::from_be_bytes
I32FromBe(b) == AsI8(b[1]) * 16777216 + b[2] * 65536 + b[3] * 256 + b[4]

\* i64::from_be_bytes
I64FromBe(b) == [hi |-> I32FromBe(SubSeq(b, 1, 4)), lo |-> I32FromBe(SubSeq(b, 5, 8))]

\* 1i64
One64 == [hi |-> 0, lo |-> 1]

\* i32::to_string: the ASCII decimal digits
RECURSIVE Digits(_)
Digits(n) == IF n < 10 THEN <<48 + n>> ELSE Digits(n \div 10) \o <<48 + (n % 10)>>

I32ToString(n) == IF n < 0 THEN <<45>> \o Digits(-n) ELSE Digits(n)

\* char::is_ascii_digit on every char of the key
AllDigits(s) == \A i \in 1..Len(s) : s[i] >= 48 /\ s[i] <= 57

\* str::parse::<i32> of a string of digits
RECURSIVE ParseI32(_)
ParseI32(s) ==
    IF Len(s) = 0 THEN 0
    ELSE ParseI32(SubSeq(s, 1, Len(s) - 1)) * 10 + (s[Len(s)] - 48)

----------------------------------------------------------------------------
(* ser.rs: the serializer.  The Serializer only ever appends to its output, *)
(* so a method is modelled by what it appends: a record [output, marks],    *)
(* output being the bytes appended and marks recording, in order, +1 for    *)
(* every ObjectBegin tag and -1 for every ObjectEnd tag among them (marks   *)
(* is history, the code does not read it).  Cat is one append after another.*)

\* self.output.write_all(bytes)
write_all(bytes) == [output |-> bytes, marks |-> <<>>]

Cat(a, b) == [output |-> a.output \o b.output, marks |-> a.marks \o b.marks]

Cat3(a, b, c) == Cat(a, Cat(b, c))

Cat4(a, b, c, d) == Cat(a, Cat(b, Cat(c, d)))

write_str(string) ==
    IF Len(string) = 0
    THEN write_all(<<0, 0, 0>>)
    ELSE Cat3(write_all(<<0>>), write_all(Be16(Len(string) % 65536)), write_all(string))

write_dtype(dtype) ==
    [output |-> <<AsU8(dtype)>>,
     marks  |-> IF dtype = DtFieldBegin THEN <<1>>
                ELSE IF dtype = DtFieldEnd THEN <<-1>>
                ELSE <<>>]

serialize_bool(v) == write_all(<<AsU8(DtBoolean), IF v THEN 1 ELSE 0>>)

serialize_i8(v) == write_all(<<AsU8(DtByte), AsU8(v)>>)

serialize_i16(v) == Cat(write_dtype(DtShort), write_all(Be16(v)))

serialize_i32(v) == Cat(write_dtype(DtInt), write_all(Be32(v)))

serialize_i64(v) == Cat(write_dtype(DtLong), write_all(Be64(v)))

serialize_char(v) == Cat(write_dtype(DtChar), write_all(<<v % 256>>))

serialize_str(v) == Cat(write_dtype(DtString), write_str(v))

serialize_none == write_all(<<>>)

\* self.output.write_i8(-1): the byte of ObjectEnd
serialize_unit == [output |-> <<AsU8(-1)>>, marks |-> <<-1>>]

serialize_unit_variant(variant) == serialize_str(variant)

SavedAvlIntervalTree ==
    <<115, 97, 118, 101, 100, 46, 97, 118, 108, 46, 105, 110, 116, 101, 114, 118, 97,
      108, 46, 116, 114, 101, 101>>

\* the opening of a sequence; the elements and SerializeSeq::end follow
serialize_seq(len) ==
    Cat3(write_dtype(DtFieldBegin), write_str(SavedAvlIntervalTree), serialize_i32(len))

serialize_tuple(len) == serialize_seq(len)

\* a tuple struct that writes its length as a sequence does
TupleStructWithCount(len) == serialize_i32(len)

serialize_tuple_struct(len) == write_all(<<>>)

serialize_tuple_variant(variant, len) == Cat(write_dtype(DtFieldBegin), write_str(variant))

serialize_map(len) == serialize_i32(len)

serialize_struct(len) == serialize_i32(len)

serialize_struct_variant(variant, len) == serialize_i32(len)

\* SerializeSeq::end, SerializeTuple::end, SerializeTupleVariant::end, SerializeMap::end
SeqEnd == write_dtype(DtFieldEnd)

TupleEnd == write_dtype(DtFieldEnd)

TupleVariantEnd == write_dtype(DtFieldEnd)

MapEnd == write_dtype(DtFieldEnd)

\* SerializeTupleStruct::end, SerializeStruct::end, SerializeStructVariant::end
TupleStructEnd == write_all(<<>>)

StructEnd == write_all(<<>>)

StructVariantEnd == write_all(<<>>)

\* MapKeySerializer: the key as a String
RECURSIVE MapKeySerializer(_)
MapKeySerializer(key) ==
    CASE key.k = "str" -> key.s
      [] key.k = "char" -> <<key.c>>
      [] key.k \in {"i8", "i16", "i32"} -> I32ToString(key.n)
      [] key.k = "notetype" -> I32ToString(key.n)
      [] key.k = "unitvar" -> key.variant
      [] key.k = "newtype" -> MapKeySerializer(key.v)

\* serialize(v) is <T as Serialize>::serialize(value, &mut serializer), T being
\* the type of the value: the std impls of serde, the derived impls, and
\* NoteType's own impl
RECURSIVE serialize(_), SerializeElements(_), SerializeEntries(_),
          SerializeFields(_), SerializeVariantFields(_)

\* the fields the derived impl does not skip (skip_serializing_if = "Option::is_none")
Kept(fields) == SelectSeq(fields, LAMBDA f : ~(f.skip /\ f.v.k = "none"))

\* SerializeSeq / SerializeTuple / SerializeTupleStruct / SerializeTupleVariant:
\* serialize_element / serialize_field on each item in order
SerializeElements(items) ==
    IF Len(items) = 0 THEN write_all(<<>>)
    ELSE Cat(serialize(Head(items)), SerializeElements(Tail(items)))

\* SerializeMap::serialize_key
serialize_key(key) == Cat(write_dtype(DtFieldBegin), write_str(MapKeySerializer(key)))

\* SerializeMap::serialize_value
serialize_value(value) == Cat(serialize(value), write_dtype(DtFieldEnd))

SerializeEntries(entries) ==
    IF Len(entries) = 0 THEN write_all(<<>>)
    ELSE Cat3(serialize_key(Head(entries).key), serialize_value(Head(entries).v),
              SerializeEntries(Tail(entries)))

\* SerializeStruct::serialize_field
serialize_field(key, value) ==
    Cat(IF AllDigits(key) THEN serialize_i32(ParseI32(key)) ELSE serialize_str(key),
        serialize(value))

SerializeFields(fields) ==
    IF Len(fields) = 0 THEN write_all(<<>>)
    ELSE Cat(serialize_field(Head(fields).key, Head(fields).v), SerializeFields(Tail(fields)))

\* SerializeStructVariant::serialize_field
serialize_variant_field(key, value) ==
    Cat4(write_dtype(DtFieldBegin), write_str(key), serialize(value), write_dtype(DtFieldEnd))

SerializeVariantFields(fields) ==
    IF Len(fields) = 0 THEN write_all(<<>>)
    ELSE Cat(serialize_variant_field(Head(fields).key, Head(fields).v),
             SerializeVariantFields(Tail(fields)))

serialize_newtype_struct(name, value) ==
    Cat4(write_dtype(DtFieldBegin), write_str(name), serialize(value), write_dtype(DtFieldEnd))

serialize_newtype_variant(variant, value) ==
    Cat4(write_dtype(DtFieldBegin), write_str(variant), serialize(value),
         write_dtype(DtFieldEnd))

serialize(v) ==
    CASE v.k = "bool" -> serialize_bool(v.b)
      [] v.k = "i8" -> serialize_i8(v.n)
      [] v.k = "i16" -> serialize_i16(v.n)
      [] v.k = "i32" -> serialize_i32(v.n)
      [] v.k = "i64" -> serialize_i64(v.w)
      [] v.k = "char" -> serialize_char(v.c)
      [] v.k = "str" -> serialize_str(v.s)
      [] v.k = "notetype" -> serialize_i32(v.n)
      [] v.k = "none" -> serialize_none
      [] v.k = "some" -> serialize(v.v)
      [] v.k = "unit" -> serialize_unit
      [] v.k = "unitvar" -> serialize_unit_variant(v.variant)
      [] v.k = "newtype" -> serialize_newtype_struct(v.name, v.v)
      [] v.k = "newvar" -> serialize_newtype_variant(v.variant, v.v)
      [] v.k = "seq" ->
            Cat3(serialize_seq(Len(v.items)), SerializeElements(v.items), SeqEnd)
      [] v.k = "tuple" ->
            Cat3(serialize_tuple(Len(v.items)), SerializeElements(v.items), TupleEnd)
      [] v.k = "tstruct" ->
            Cat3(serialize_tuple_struct(Len(v.items)), SerializeElements(v.items),
                 TupleStructEnd)
      [] v.k = "tupvar" ->
            Cat3(serialize_tuple_variant(v.variant, Len(v.items)),
                 SerializeElements(v.items), TupleVariantEnd)
      [] v.k = "map" ->
            Cat3(serialize_map(Len(v.entries)), SerializeEntries(v.entries), MapEnd)
      [] v.k = "struct" ->
            Cat3(serialize_struct(Len(Kept(v.fields))), SerializeFields(Kept(v.fields)),
                 StructEnd)
      [] v.k = "structvar" ->
            Cat3(serialize_struct_variant(v.variant, Len(Kept(v.fields))),
                 SerializeVariantFields(Kept(v.fields)), StructVariantEnd)

\* to_bytevec: the Serializer after the value has been serialized
to_bytevec_ser(value) ==
    Cat(write_all(MAGIC \o <<AsU8(DtLong)>> \o Be64(One64)), serialize(value))

to_bytevec(value) == to_bytevec_ser(value).output

----------------------------------------------------------------------------
(* de.rs: the deserializer.  A deserializer state is [input, counter].  An *)
(* operation returns [st, val, err, de]: st is "ok" (val is the result),   *)
(* "err" (err is the Error returned) or "panic" (unwrap on an Err value,   *)
(* todo!()); de is the deserializer state the operation leaves.            *)

NoVal == [k |-> "novalue"]

NoErr == [kind |-> "none"]

Ok(val, de) == [st |-> "ok", val |-> val, err |-> NoErr, de |-> de]

Err(e, de) == [st |-> "err", val |-> NoVal, err |-> e, de |-> de]

Panic(de) == [st |-> "panic", val |-> NoVal, err |-> NoErr, de |-> de]

Eof == [kind |-> "Eof"]

BadMagic == [kind |-> "BadMagic"]

TrailingBytes == [kind |-> "TrailingBytes"]

WontImplement == [kind |-> "WontImplement"]

UnknownType(v) == [kind |-> "UnknownType", byte |-> v]

Expected(want, got, pos) == [kind |-> "Expected", want |-> want, got |-> got, pos |-> pos]

Unexpected(got, pos) == [kind |-> "Unexpected", got |-> got, pos |-> pos]

\* Error::Message, made by serde's de::Error::custom and its helpers
Message(msg) == [kind |-> "Message", msg |-> msg]

\* std::str::from_utf8(bytes).is_ok()
RECURSIVE Utf8Valid(_)
Utf8Valid(b) ==
    LET n == Len(b)
        cont(i) == i <= n /\ b[i] >= 128 /\ b[i] <= 191
        from(k) == SubSeq(b, k, n)
    IN IF n = 0 THEN TRUE
       ELSE IF b[1] <= 127 THEN Utf8Valid(from(2))
       ELSE IF b[1] >= 194 /\ b[1] <= 223 THEN cont(2) /\ Utf8Valid(from(3))
       ELSE IF b[1] = 224 THEN n >= 2 /\ b[2] >= 160 /\ b[2] <= 191 /\ cont(3) /\ Utf8Valid(from(4))
       ELSE IF b[1] = 237 THEN n >= 2 /\ b[2] >= 128 /\ b[2] <= 159 /\ cont(3) /\ Utf8Valid(from(4))
       ELSE IF b[1] >= 225 /\ b[1] <= 239 THEN cont(2) /\ cont(3) /\ Utf8Valid(from(4))
       ELSE IF b[1] = 240
            THEN n >= 2 /\ b[2] >= 144 /\ b[2] <= 191 /\ cont(3) /\ cont(4) /\ Utf8Valid(from(5))
       ELSE IF b[1] >= 241 /\ b[1] <= 243
            THEN cont(2) /\ cont(3) /\ cont(4) /\ Utf8Valid(from(5))
       ELSE IF b[1] = 244
            THEN n >= 2 /\ b[2] >= 128 /\ b[2] <= 143 /\ cont(3) /\ cont(4) /\ Utf8Valid(from(5))
       ELSE FALSE

\* the `?` of Rust: r when r is an error (or a panic), else F of the ok result r
Try(r, F(_)) == IF r.st = "ok" THEN F(r) ELSE r

\* Deserializer::from_bytes
NewDeserializer(input) == [input |-> input, counter |-> 0]

\* a consume_unchecked that drops the bytes and leaves the counter as it was
ConsumeWithoutCount(de, count) ==
    [input |-> SubSeq(de.input, count + 1, Len(de.input)), counter |-> de.counter]

consume_unchecked(de, count) ==
    [input |-> SubSeq(de.input, count + 1, Len(de.input)), counter |-> de.counter + count]

peek_byte(de) == IF Len(de.input) = 0 THEN Err(Eof, de) ELSE Ok(de.input[1], de)

next_byte(de) == Try(peek_byte(de), LAMBDA byte : Ok(byte.val, consume_unchecked(de, 1)))

get_array(de, N) ==
    IF Len(de.input) < N THEN Err(Eof, de)
    ELSE Ok(SubSeq(de.input, 1, N), consume_unchecked(de, N))

\* a get_slice that gives the bytes there are when fewer than count are left
GetSliceClamped(de, count) ==
    IF Len(de.input) < count THEN Ok(de.input, consume_unchecked(de, Len(de.input)))
    ELSE Ok(SubSeq(de.input, 1, count), consume_unchecked(de, count))

get_slice(de, count) ==
    IF Len(de.input) < count THEN Err(Eof, de)
    ELSE Ok(SubSeq(de.input, 1, count), consume_unchecked(de, count))

\* std::str::from_utf8(slice).unwrap()
FromUtf8Unwrap(sl) == IF Utf8Valid(sl.val) THEN sl ELSE Panic(sl.de)

parse_string(de) ==
    Try(next_byte(de), LAMBDA b :
        IF b.val # 1
        THEN Try(get_array(b.de, 2), LAMBDA length :
                 Try(get_slice(length.de, U16FromBe(length.val)), FromUtf8Unwrap))
        ELSE Ok(<<>>, b.de))

parse_i32(de) == Try(get_array(de, 4), LAMBDA a : Ok(I32FromBe(a.val), a.de))

\* a conversion that takes every byte for a tag
TryIntoAnyDataType(r) == Ok(AsI8(r.val), r.de)

\* DataType::try_from(u8) of the byte r.val
TryIntoDataType(r) ==
    IF AsI8(r.val) \in DataTypes THEN Ok(AsI8(r.val), r.de)
    ELSE Err(UnknownType(AsI8(r.val)), r.de)

next_datatype(de) == Try(next_byte(de), TryIntoDataType)

parse_type(de, datatype) ==
    Try(next_datatype(de), LAMBDA next :
        IF next.val # datatype
        THEN Err(Expected(datatype, next.val, next.de.counter), next.de)
        ELSE Ok(NoVal, next.de))

peek_next_datatype(de) == Try(peek_byte(de), TryIntoDataType)

\* `n as usize` of an i32: a negative n becomes 2^64 + n, which no buffer reaches;
\* the model caps it at the largest integer of the checker
\* a count that is one more than the count read
AsUsizePlusOne(n) == n + 1

AsUsize(n) == IF n >= 0 THEN n ELSE 2147483647

deserialize_bool(de) ==
    Try(parse_type(de, DtBoolean), LAMBDA t :
        Try(next_byte(t.de), LAMBDA b : Ok([k |-> "bool", b |-> b.val # 0], b.de)))

deserialize_i8(de) ==
    Try(parse_type(de, DtByte), LAMBDA t :
        Try(next_byte(t.de), LAMBDA b : Ok([k |-> "i8", n |-> AsI8(b.val)], b.de)))

\* a deserialize_i16 that reads its payload as an unsigned number
DeserializeI16Unsigned(de) ==
    Try(parse_type(de, DtShort), LAMBDA t :
        Try(get_array(t.de, 2), LAMBDA a : Ok([k |-> "i16", n |-> U16FromBe(a.val)], a.de)))

deserialize_i16(de) ==
    Try(parse_type(de, DtShort), LAMBDA t :
        Try(get_array(t.de, 2), LAMBDA a : Ok([k |-> "i16", n |-> I16FromBe(a.val)], a.de)))

deserialize_i32(de) ==
    Try(parse_type(de, DtInt), LAMBDA t :
        Try(parse_i32(t.de), LAMBDA a : Ok([k |-> "i32", n |-> a.val], a.de)))

deserialize_i64(de) ==
    Try(parse_type(de, DtLong), LAMBDA t :
        Try(get_array(t.de, 8), LAMBDA a : Ok([k |-> "i64", w |-> I64FromBe(a.val)], a.de)))

\* deserialize_f32 / deserialize_f64 with a visitor that drops the value
deserialize_f32(de) ==
    Try(parse_type(de, DtFloat), LAMBDA t :
        Try(get_array(t.de, 4), LAMBDA a : Ok(NoVal, a.de)))

deserialize_f64(de) ==
    Try(parse_type(de, DtDouble), LAMBDA t :
        Try(get_array(t.de, 8), LAMBDA a : Ok(NoVal, a.de)))

deserialize_char(de) ==
    Try(parse_type(de, DtChar), LAMBDA t :
        Try(next_byte(t.de), LAMBDA b : Ok([k |-> "char", c |-> b.val], b.de)))

deserialize_string(de) ==
    Try(parse_type(de, DtString), LAMBDA t :
        Try(parse_string(t.de), LAMBDA s : Ok([k |-> "str", s |-> s.val], s.de)))

\* deserialize_identifier = deserialize_str: the untagged string body
deserialize_str(de) == parse_string(de)

\* file_formats.rs: NoteType::try_from(i32), inside NoteTypeVisitor::visit_i32
NoteTypeValues == {0, 1, 2, 10, 11}

DeserializeNoteType(de) ==
    Try(deserialize_i32(de), LAMBDA r :
        IF r.val.n \in NoteTypeValues THEN Ok([k |-> "notetype", n |-> r.val.n], r.de)
        ELSE Err(Message("i32 out of range: -2..9"), r.de))

\* deserialize_any with a visitor that takes any primitive (IgnoredAny)
deserialize_any(de) ==
    Try(peek_next_datatype(de), LAMBDA next :
        CASE next.val = DtBoolean -> deserialize_bool(de)
          [] next.val = DtInt -> deserialize_i32(de)
          [] next.val = DtLong -> deserialize_i64(de)
          [] next.val = DtString -> deserialize_string(de)
          [] next.val = DtDouble -> deserialize_f64(de)
          [] next.val = DtShort -> deserialize_i16(de)
          [] next.val = DtFloat -> deserialize_f32(de)
          [] next.val = DtByte -> deserialize_i8(de)
          [] next.val = DtChar -> deserialize_char(de)
          [] OTHER -> Err(WontImplement, de))

deserialize_ignored_any(de) == deserialize_any(de)

----------------------------------------------------------------------------
(* de.rs: the compound types.  A type T is a record with a kind k; the     *)
(* operator deserialize(T, de) is <T as Deserialize>::deserialize(&mut de): *)
(* the std impls of serde (Vec, Option, maps, tuples, primitives), the      *)
(* derived impls (structs, tuple structs, newtype structs, enums) and       *)
(* NoteType's own impl, each calling the deserialize_* method it names.    *)

\* the index of the field or variant called name, 0 when there is none
IndexOf(name, entries) ==
    IF \E i \in 1..Len(entries) : entries[i].key = name
    THEN CHOOSE i \in 1..Len(entries) :
             entries[i].key = name /\ \A j \in 1..(i - 1) : entries[j].key # name
    ELSE 0

\* Ok(None) of a SeqAccess
EndOfSeq == [k |-> "end"]

RECURSIVE deserialize(_, _), LengthBasedSeq(_, _, _, _, _), LengthBasedTuple(_, _, _, _, _),
          LengthBasedMap(_, _, _, _, _, _), TerminatedSeq(_, _, _, _, _),
          LengthBasedStruct(_, _, _, _, _)

\* SeqAccess for LengthBased, driven by the visitor of Vec<T>: next_element until None
LengthBasedSeq(elem, de, total, done, acc) ==
    IF done = total THEN Ok(acc, de)
    ELSE Try(deserialize(elem, de), LAMBDA r :
             LengthBasedSeq(elem, r.de, total, done + 1, Append(acc, r.val)))

\* SeqAccess for LengthBased, driven by the visitor of a tuple or of a tuple
\* variant: one next_element per field, None being an invalid length
LengthBasedTuple(elems, de, total, done, acc) ==
    IF Len(acc) = Len(elems) THEN Ok(acc, de)
    ELSE IF done = total THEN Err(Message("invalid length"), de)
    ELSE Try(deserialize(elems[Len(acc) + 1], de), LAMBDA r :
             LengthBasedTuple(elems, r.de, total, done + 1, Append(acc, r.val)))

\* MapAccess for LengthBased, driven by the visitor of a map: next_entry until None
LengthBasedMap(kty, vty, de, total, done, acc) ==
    IF done = total THEN Ok(acc, de)
    ELSE Try(deserialize(kty, de), LAMBDA key :
             Try(deserialize(vty, key.de), LAMBDA value :
                 LengthBasedMap(kty, vty, value.de, total, done + 1,
                                Append(acc, [key |-> key.val, v |-> value.val]))))

\* Terminated::next_element_seed (total = Some(len)): Ok(None) is the value
\* EndOfSeq; the field done of the reader is returned as the code leaves it,
\* which is as it was
TerminatedNextElement(elem, de, total, done) ==
    Try(peek_next_datatype(de), LAMBDA next :
        IF next.val = DtFieldEnd /\ done = total
        THEN Ok(EndOfSeq, de) @@ [done |-> done]
        ELSE Try(deserialize(elem, de), LAMBDA r : Ok(r.val, r.de) @@ [done |-> done]))

\* SeqAccess for Terminated, driven by the derived visitor of a tuple struct:
\* one next_element per field, None being an invalid length
TerminatedSeq(elems, de, total, done, acc) ==
    IF Len(acc) = Len(elems) THEN Ok(acc, de)
    ELSE Try(TerminatedNextElement(elems[Len(acc) + 1], de, total, done), LAMBDA r :
             IF r.val.k = "end" THEN Err(Message("invalid length"), r.de)
             ELSE TerminatedSeq(elems, r.de, total, r.done, Append(acc, r.val)))

\* a visitor that calls next_element on a Terminated reader k more times, or
\* until the reader reports the end: how many elements it was given, whether
\* the end was reported, and the field done of the reader afterwards
RECURSIVE TerminatedTake(_, _, _, _, _, _)
TerminatedTake(elems, de, total, done, k, yielded) ==
    IF k = 0
    THEN Ok([k |-> "taken", yielded |-> yielded, ended |-> FALSE, done |-> done], de)
    ELSE Try(TerminatedNextElement(elems[IF yielded < Len(elems) THEN yielded + 1
                                         ELSE Len(elems)],
                                   de, total, done), LAMBDA r :
             IF r.val.k = "end"
             THEN Ok([k |-> "taken", yielded |-> yielded, ended |-> TRUE, done |-> r.done],
                     r.de)
             ELSE TerminatedTake(elems, r.de, total, r.done, k - 1, yielded + 1))

\* the derived visitor of a struct, after next_key has returned None: a field
\* never seen is None when it is an Option and a missing field otherwise
FinishStruct(fields, got, de) ==
    IF \E i \in 1..Len(fields) : got[i] = NoVal /\ fields[i].ty.k # "option"
    THEN Err(Message("missing field"), de)
    ELSE Ok([k |-> "struct",
             fields |-> [i \in 1..Len(fields) |->
                            [key |-> fields[i].key,
                             v |-> IF got[i] = NoVal THEN [k |-> "none"] ELSE got[i],
                             skip |-> fields[i].skip]]], de)

\* a next_key_seed that leaves the FIELD_END of the last group unread
StructFieldEndUnread(de, done) == Ok(NoVal, de)

\* LengthBasedStruct::next_key_seed up to the test of done against total
StructFieldEnd(de, done) == IF done > 0 THEN parse_type(de, DtFieldEnd) ELSE Ok(NoVal, de)

\* MapAccess for LengthBasedStruct, driven by the derived visitor of a struct:
\* a key that names no field has its value ignored, a key seen twice is an error
LengthBasedStruct(fields, de, total, done, got) ==
    Try(StructFieldEnd(de, done), LAMBDA e :
        IF done = total THEN FinishStruct(fields, got, e.de)
        ELSE Try(parse_type(e.de, DtFieldBegin), LAMBDA b :
                 Try(deserialize_str(b.de), LAMBDA key :
                     IF IndexOf(key.val, fields) = 0
                     THEN Try(deserialize_ignored_any(key.de), LAMBDA ig :
                              LengthBasedStruct(fields, ig.de, total, done + 1, got))
                     ELSE IF got[IndexOf(key.val, fields)] # NoVal
                          THEN Err(Message("duplicate field"), key.de)
                     ELSE Try(deserialize(fields[IndexOf(key.val, fields)].ty, key.de),
                              LAMBDA value :
                              LengthBasedStruct(fields, value.de, total, done + 1,
                                  [got EXCEPT ![IndexOf(key.val, fields)] = value.val])))))

deserialize_option(inner, de) ==
    Try(peek_next_datatype(de), LAMBDA next :
        IF next.val = DtFieldEnd THEN Ok([k |-> "none"], de)
        ELSE Try(deserialize(inner, de), LAMBDA r : Ok([k |-> "some", v |-> r.val], r.de)))

\* the string read after FieldBegin is dropped; the value carries the name of
\* the Rust type
deserialize_newtype_struct(name, inner, de) ==
    Try(parse_type(de, DtFieldBegin), LAMBDA b :
        Try(parse_string(b.de), LAMBDA s :
            Try(deserialize(inner, s.de), LAMBDA value :
                Try(parse_type(value.de, DtFieldEnd), LAMBDA e :
                    Ok([k |-> "newtype", name |-> name, v |-> value.val], e.de)))))

deserialize_seq(elem, de) ==
    Try(parse_type(de, DtInt), LAMBDA t :
        Try(parse_i32(t.de), LAMBDA length :
            Try(LengthBasedSeq(elem, length.de, AsUsize(length.val), 0, <<>>), LAMBDA r :
                Ok([k |-> "seq", items |-> r.val], r.de))))

deserialize_tuple(elems, de) ==
    Try(LengthBasedTuple(elems, de, Len(elems), 0, <<>>), LAMBDA r :
        Ok([k |-> "tuple", items |-> r.val], r.de))

deserialize_tuple_struct(elems, de) ==
    Try(TerminatedSeq(elems, de, Len(elems), 0, <<>>), LAMBDA r :
        Ok([k |-> "tstruct", items |-> r.val], r.de))

deserialize_map(kty, vty, de) ==
    Try(parse_type(de, DtInt), LAMBDA t :
        Try(parse_i32(t.de), LAMBDA length :
            Try(LengthBasedMap(kty, vty, length.de, AsUsize(length.val), 0, <<>>), LAMBDA r :
                Ok([k |-> "map", entries |-> r.val], r.de))))

deserialize_struct(fields, de) ==
    Try(parse_type(de, DtInt), LAMBDA t :
        Try(parse_i32(t.de), LAMBDA length :
            LengthBasedStruct(fields, length.de, AsUsize(length.val), 0,
                              [i \in 1..Len(fields) |-> NoVal])))

\* visit_enum(name.into_deserializer()): the variant is looked up by name and
\* only a unit variant can be made of it
StrEnumAccess(variants, s) ==
    IF IndexOf(s.val, variants) = 0 THEN Err(Message("unknown variant"), s.de)
    ELSE IF variants[IndexOf(s.val, variants)].kind # "unit"
         THEN Err(Message("invalid type: unit variant"), s.de)
    ELSE Ok([k |-> "unitvar", variant |-> s.val], s.de)

\* VariantAccess for Enum: unit_variant, newtype_variant_seed, tuple_variant, struct_variant
VariantAccess(variant, name) ==
    CASE variant.kind = "unit" -> Err(Message("Should already be parsed"), name.de)
      [] variant.kind = "newtype" ->
            Try(deserialize(variant.ty, name.de), LAMBDA r :
                Ok([k |-> "newvar", variant |-> name.val, v |-> r.val], r.de))
      [] variant.kind = "tuple" ->
            Try(LengthBasedTuple(variant.elems, name.de, Len(variant.elems), 0, <<>>),
                LAMBDA r :
                Try(parse_type(r.de, DtFieldEnd), LAMBDA e :
                    Ok([k |-> "tupvar", variant |-> name.val, items |-> r.val], e.de)))
      [] variant.kind = "struct" -> Panic(name.de)

\* EnumAccess for Enum (variant_seed), then the derived visitor's VariantAccess call
EnumAccess(variants, de) ==
    Try(next_datatype(de), LAMBDA b :
        IF b.val # DtFieldBegin THEN Panic(b.de)
        ELSE Try(deserialize_str(b.de), LAMBDA name :
                 IF IndexOf(name.val, variants) = 0
                 THEN Err(Message("unknown variant"), name.de)
                 ELSE VariantAccess(variants[IndexOf(name.val, variants)], name)))

deserialize_enum(variants, de) ==
    Try(peek_next_datatype(de), LAMBDA next :
        IF next.val = DtString
        THEN Try(next_byte(de), LAMBDA b :
                 Try(parse_string(b.de), LAMBDA s : StrEnumAccess(variants, s)))
        ELSE IF next.val = DtInt THEN Panic(de)
        ELSE IF next.val = DtFieldBegin
             THEN Try(EnumAccess(variants, de), LAMBDA value :
                      Try(parse_type(value.de, DtFieldEnd), LAMBDA e : Ok(value.val, e.de)))
        ELSE Err(Unexpected(next.val, de.counter), de))

\* todo!()
deserialize_unit(de) == Panic(de)

deserialize(ty, de) ==
    CASE ty.k = "bool" -> deserialize_bool(de)
      [] ty.k = "i8" -> deserialize_i8(de)
      [] ty.k = "i16" -> deserialize_i16(de)
      [] ty.k = "i32" -> deserialize_i32(de)
      [] ty.k = "i64" -> deserialize_i64(de)
      [] ty.k = "char" -> deserialize_char(de)
      [] ty.k = "str" -> deserialize_string(de)
      [] ty.k = "notetype" -> DeserializeNoteType(de)
      [] ty.k = "unit" -> deserialize_unit(de)
      [] ty.k = "option" -> deserialize_option(ty.inner, de)
      [] ty.k = "newtype" -> deserialize_newtype_struct(ty.name, ty.inner, de)
      [] ty.k = "seq" -> deserialize_seq(ty.elem, de)
      [] ty.k = "tuple" -> deserialize_tuple(ty.elems, de)
      [] ty.k = "tstruct" -> deserialize_tuple_struct(ty.elems, de)
      [] ty.k = "map" -> deserialize_map(ty.key, ty.val, de)
      [] ty.k = "struct" -> deserialize_struct(ty.fields, de)
      [] ty.k = "enum" -> deserialize_enum(ty.variants, de)

\* a from_bytes that returns the value whatever is left of the input
TrailingBytesIgnored(t) == t

\* the end of from_bytes: the value when no input is left
RequireNoTrailingBytes(t) == IF Len(t.de.input) = 0 THEN t ELSE Err(TrailingBytes, t.de)

\* from_bytes::<T>(b)
from_bytes(b, ty) ==
    IF Len(b) < Len(MAGIC) + 5 THEN Err(Eof, NewDeserializer(b))
    ELSE IF SubSeq(b, 1, Len(MAGIC)) # MAGIC THEN Err(BadMagic, NewDeserializer(b))
    ELSE Try(deserialize(ty, [input |-> SubSeq(b, Len(MAGIC) + 1, Len(b)),
                              counter |-> Len(MAGIC)]),
             RequireNoTrailingBytes)

----------------------------------------------------------------------------
(* test.rs: the strings of the fixtures *)

\* "testing stuff"
TestingStuff == <<116, 101, 115, 116, 105, 110, 103, 32, 115, 116, 117, 102, 102>>

\* "page.history.record"
PageHistoryRecordName == <<112, 97, 103, 101, 46, 104, 105, 115, 116, 111, 114, 121, 46, 114, 101, 99, 111, 114, 100>>

\* "field_1"
Field1 == <<102, 105, 101, 108, 100, 95, 49>>

\* "field_2"
Field2 == <<102, 105, 101, 108, 100, 95, 50>>

\* "field_3"
Field3 == <<102, 105, 101, 108, 100, 95, 51>>

\* "field_4"
Field4 == <<102, 105, 101, 108, 100, 95, 52>>

\* "testing string"
TestingString == <<116, 101, 115, 116, 105, 110, 103, 32, 115, 116, 114, 105, 110, 103>>

\* "this is neat"
ThisIsNeat == <<116, 104, 105, 115, 32, 105, 115, 32, 110, 101, 97, 116>>

\* "TEST YOUR CODE!"
TestYourCode == <<84, 69, 83, 84, 32, 89, 79, 85, 82, 32, 67, 79, 68, 69, 33>>

\* "annotation.personal.handwritten_note"
HandwrittenNoteName == <<97, 110, 110, 111, 116, 97, 116, 105, 111, 110, 46, 112, 101, 114, 115, 111, 110, 97, 108, 46, 104, 97, 110, 100, 119, 114, 105, 116, 116, 101, 110, 95, 110, 111, 116, 101>>

\* "annotation.personal.bookmark"
BookmarkName == <<97, 110, 110, 111, 116, 97, 116, 105, 111, 110, 46, 112, 101, 114, 115, 111, 110, 97, 108, 46, 98, 111, 111, 107, 109, 97, 114, 107>>

\* "lpr"
LprName == <<108, 112, 114>>

\* "fpr"
FprName == <<102, 112, 114>>

\* "AUYGAAAAAAAA:2"
Pos == <<65, 85, 89, 71, 65, 65, 65, 65, 65, 65, 65, 65, 58, 50>>

\* note_magic(): "0", U+FFFC, "0"
NoteMagic == <<48, 239, 191, 188, 48>>

----------------------------------------------------------------------------
(* test.rs: the expected bytes of the fixtures (no prologue) *)

\* test_num(num, dtype) for the integer widths
test_num_i8(num) == <<AsU8(DtByte)>> \o <<AsU8(num)>>

test_num_i16(num) == <<AsU8(DtShort)>> \o Be16(num)

test_num_i32(num) == <<AsU8(DtInt)>> \o Be32(num)

test_num_i64(num) == <<AsU8(DtLong)>> \o Be64(num)

\* test_string() / str_to_bytes(string), for a string that is not empty
str_to_bytes(string) == <<AsU8(DtString), 0>> \o Be16(Len(string)) \o string

empty_string == <<3, 1>>

\* the bytes test_vec_strings gives each element
TestStringBytes(string) == IF Len(string) = 0 THEN empty_string ELSE str_to_bytes(string)

RECURSIVE ConcatI32(_), ConcatStrings(_)
ConcatI32(ns) == IF Len(ns) = 0 THEN <<>> ELSE test_num_i32(Head(ns)) \o ConcatI32(Tail(ns))

ConcatStrings(ss) ==
    IF Len(ss) = 0 THEN <<>> ELSE TestStringBytes(Head(ss)) \o ConcatStrings(Tail(ss))

\* test_vec_int() with the Vec<i32> vec
test_vec_int(vec) == test_num_i32(Len(vec)) \o ConcatI32(vec)

\* test_vec_strings() with the Vec<String> vec
test_vec_strings(vec) == test_num_i32(Len(vec)) \o ConcatStrings(vec)

\* simple_newtype() for PHRWrapper(PageHistoryRecord(s, n))
simple_newtype(str, n) ==
    <<AsU8(DtFieldBegin), 0>> \o Be16(Len(PageHistoryRecordName)) \o PageHistoryRecordName
        \o str_to_bytes(str) \o test_num_i64(n) \o <<AsU8(DtFieldEnd)>>

\* the record of an IntervalTree of no notes, as deserialize_newtype_struct and
\* deserialize_seq read it
empty_interval_tree ==
    <<AsU8(DtFieldBegin), 0>> \o Be16(Len(SavedAvlIntervalTree)) \o SavedAvlIntervalTree
        \o test_num_i32(0) \o <<AsU8(DtFieldEnd)>>

\* simple_struct() for SimpleStruct {field_1, field_2}
simple_struct(field_1, field_2) ==
    test_num_i32(2)
        \o <<AsU8(DtFieldBegin), 0, 0, 7>> \o Field1 \o test_num_i32(field_1)
        \o <<AsU8(DtFieldEnd), AsU8(DtFieldBegin), 0, 0, 7>> \o Field2 \o str_to_bytes(field_2)
        \o <<AsU8(DtFieldEnd)>>

\* test_map() for the map of the three entries k1, k2, k3 (NoteType as i32)
test_map(k1, k2, k3) ==
    test_num_i32(3)
        \o test_num_i32(k1) \o str_to_bytes(TestingString)
        \o test_num_i32(k2) \o str_to_bytes(ThisIsNeat)
        \o test_num_i32(k3) \o str_to_bytes(TestYourCode)

\* vec_map_struct() for VecMapStruct {field_1, field_2, field_3, field_4}
vec_map_struct(int, vec, k1, k2, k3) ==
    LET field_starter == <<AsU8(DtFieldBegin), 0, 0, 7>>
        field_end == <<AsU8(DtFieldEnd)>>
    IN test_num_i32(4)
        \o field_starter \o Field1 \o test_num_i32(int) \o field_end
        \o field_starter \o Field2 \o str_to_bytes(TestingStuff) \o field_end
        \o field_starter \o Field3 \o test_vec_int(vec) \o field_end
        \o field_starter \o Field4 \o test_map(k1, k2, k3) \o field_end

----------------------------------------------------------------------------
(* The Rust values and types of the fixtures *)

Bool(b) == [k |-> "bool", b |-> b]

I8(n) == [k |-> "i8", n |-> n]

I16(n) == [k |-> "i16", n |-> n]

I32(n) == [k |-> "i32", n |-> n]

I64(w) == [k |-> "i64", w |-> w]

Str(s) == [k |-> "str", s |-> s]

NoteType(n) == [k |-> "notetype", n |-> n]

None == [k |-> "none"]

Some(v) == [k |-> "some", v |-> v]

Vec(items) == [k |-> "seq", items |-> items]

TupleStruct(items) == [k |-> "tstruct", items |-> items]

Newtype(name, v) == [k |-> "newtype", name |-> name, v |-> v]

TBool == [k |-> "bool"]

TI8 == [k |-> "i8"]

TI16 == [k |-> "i16"]

TI32 == [k |-> "i32"]

TI64 == [k |-> "i64"]

TStr == [k |-> "str"]

TNoteType == [k |-> "notetype"]

TVec(elem) == [k |-> "seq", elem |-> elem]

TOption(inner) == [k |-> "option", inner |-> inner]

\* the i64 whose upper half is hi and whose lower half is lo
W(hi, lo) == [hi |-> hi, lo |-> lo]

\* Vec<i32> and Vec<String> of the numbers and strings of a sequence
I32s(ns) == [i \in 1..Len(ns) |-> I32(ns[i])]

Strs(ss) == [i \in 1..Len(ss) |-> Str(ss[i])]

\* PHRWrapper(PageHistoryRecord(String, i64)), renamed "page.history.record"
TPHRWrapper ==
    [k |-> "newtype", name |-> PageHistoryRecordName,
     inner |-> [k |-> "tstruct", elems |-> <<TStr, TI64>>]]

PHRWrapper(str, n) == Newtype(PageHistoryRecordName, TupleStruct(<<Str(str), I64(n)>>))

\* test.rs: SimpleStruct
TSimpleStruct ==
    [k |-> "struct",
     fields |-> <<[key |-> Field1, ty |-> TI32, skip |-> FALSE],
                  [key |-> Field2, ty |-> TStr, skip |-> FALSE]>>]

SimpleStruct(field_1, field_2) ==
    [k |-> "struct",
     fields |-> <<[key |-> Field1, v |-> I32(field_1), skip |-> FALSE],
                  [key |-> Field2, v |-> Str(field_2), skip |-> FALSE]>>]

\* LinkedHashMap<NoteType, String>
TNoteMap == [k |-> "map", key |-> TNoteType, val |-> TStr]

NoteMap(k1, k2, k3) ==
    [k |-> "map",
     entries |-> <<[key |-> NoteType(k1), v |-> Str(TestingString)],
                   [key |-> NoteType(k2), v |-> Str(ThisIsNeat)],
                   [key |-> NoteType(k3), v |-> Str(TestYourCode)]>>]

\* test.rs: VecMapStruct
TVecMapStruct ==
    [k |-> "struct",
     fields |-> <<[key |-> Field1, ty |-> TI32, skip |-> FALSE],
                  [key |-> Field2, ty |-> TStr, skip |-> FALSE],
                  [key |-> Field3, ty |-> TVec(TI32), skip |-> FALSE],
                  [key |-> Field4, ty |-> TNoteMap, skip |-> FALSE]>>]

VecMapStruct(int, vec, k1, k2, k3) ==
    [k |-> "struct",
     fields |-> <<[key |-> Field1, v |-> I32(int), skip |-> FALSE],
                  [key |-> Field2, v |-> Str(TestingStuff), skip |-> FALSE],
                  [key |-> Field3, v |-> Vec(I32s(vec)), skip |-> FALSE],
                  [key |-> Field4, v |-> NoteMap(k1, k2, k3), skip |-> FALSE]>>]

\* file_formats.rs: LPR(i8, String, i64) and a data file of two optional
\* fields, "lpr" and "fpr", both skipped when None
TLPR == [k |-> "tstruct", elems |-> <<TI8, TStr, TI64>>]

TDataFile ==
    [k |-> "struct",
     fields |-> <<[key |-> LprName, ty |-> TOption(TLPR), skip |-> TRUE],
                  [key |-> FprName, ty |-> TOption(TStr), skip |-> TRUE]>>]

DataFile(lpr, fpr) ==
    [k |-> "struct",
     fields |-> <<[key |-> LprName, v |-> lpr, skip |-> TRUE],
                  [key |-> FprName, v |-> fpr, skip |-> TRUE]>>]

\* a struct whose derive carries no skip_serializing_if on its Option field:
\* struct { field_1: Option<i32>, field_2: String }
TOptionStruct ==
    [k |-> "struct",
     fields |-> <<[key |-> Field1, ty |-> TOption(TI32), skip |-> FALSE],
                  [key |-> Field2, ty |-> TStr, skip |-> FALSE]>>]

OptionStruct(field_1, field_2) ==
    [k |-> "struct",
     fields |-> <<[key |-> Field1, v |-> field_1, skip |-> FALSE],
                  [key |-> Field2, v |-> Str(field_2), skip |-> FALSE]>>]

\* a struct whose fields are renamed "0" and "10":
\* struct { #[serde(rename = "0")] a: i32, #[serde(rename = "10")] b: String }
TNumericStruct ==
    [k |-> "struct",
     fields |-> <<[key |-> <<48>>, ty |-> TI32, skip |-> FALSE],
                  [key |-> <<49, 48>>, ty |-> TStr, skip |-> FALSE]>>]

NumericStruct(a, b) ==
    [k |-> "struct",
     fields |-> <<[key |-> <<48>>, v |-> I32(a), skip |-> FALSE],
                  [key |-> <<49, 48>>, v |-> Str(b), skip |-> FALSE]>>]

\* a tuple struct with Option fields inside a named record, as PageHistoryRecord
\* is inside PHRWrapper
TOptRecord(elems) ==
    [k |-> "newtype", name |-> PageHistoryRecordName,
     inner |-> [k |-> "tstruct", elems |-> elems]]

OptRecord(items) == Newtype(PageHistoryRecordName, TupleStruct(items))

\* file_formats.rs: Note, with two of its newtype variants over a tuple struct
TAnnotation == [k |-> "tstruct", elems |-> <<TStr, TI64>>]

TNote ==
    [k |-> "enum",
     variants |-> <<[key |-> BookmarkName, kind |-> "newtype", ty |-> TAnnotation],
                    [key |-> HandwrittenNoteName, kind |-> "newtype", ty |-> TAnnotation]>>]

Note(variant, pos, ts) ==
    [k |-> "newvar", variant |-> variant, v |-> TupleStruct(<<Str(pos), I64(ts)>>)]

\* file_formats.rs: IntervalTree<Note>, renamed "saved.avl.interval.tree"
TIntervalTree == [k |-> "newtype", name |-> SavedAvlIntervalTree, inner |-> TVec(TNote)]

\* an enum with a unit, a tuple and a struct variant (the three shapes of
\* serialize_unit_variant, serialize_tuple_variant, serialize_struct_variant)
TShape ==
    [k |-> "enum",
     variants |-> <<[key |-> Field1, kind |-> "unit"],
                    [key |-> Field2, kind |-> "tuple", elems |-> <<TI32, TStr>>],
                    [key |-> Field3, kind |-> "struct"]>>]

----------------------------------------------------------------------------
(* The cases: a Rust type ty, a value val of it and, when test.rs gives    *)
(* them, the bytes wire that test.rs expects for the value.                *)

Fixture(id, ty, val, wire) ==
    [id |-> id, ty |-> ty, val |-> val, hasWire |-> TRUE, wire |-> wire]

Shape(id, ty, val) ==
    [id |-> id, ty |-> ty, val |-> val, hasWire |-> FALSE, wire |-> <<>>]

VecInts == {<<>>, <<7>>, <<0, 1, 2>>, <<0, 1, 2, 3, 45, 44, 60>>}

VecStrings == {<<>>, <<<<>>>>, <<TestingStuff, <<>>, TestingStuff, <<>>, TestingStuff>>}

FixtureCases ==
    {Fixture("de_i8", TI8, I8(n), test_num_i8(n)) : n \in {117, -1, -128, 0, 127}}
    \cup {Fixture("de_i16", TI16, I16(n), test_num_i16(n)) : n \in {2004, -300, 0, 32767, -32768}}
    \cup {Fixture("de_i32", TI32, I32(n), test_num_i32(n)) : n \in {65555, 1234, -2, 0, 2147483647, -2147483647 - 1}}
    \cup {Fixture("de_i64", TI64, I64(w), test_num_i64(w)) :
             w \in {W(1, 4), W(0, 7734), W(-1, -1), W(0, 0), W(2147483647, -1),
                   W(-2147483647 - 1, 0)}}
    \cup {Fixture("test_string", TStr, Str(TestingStuff), str_to_bytes(TestingStuff)),
          Fixture("test_string", TStr, Str(NoteMagic), str_to_bytes(NoteMagic)),
          Fixture("empty_string", TStr, Str(<<>>), empty_string)}
    \cup {Fixture("test_vec_int", TVec(TI32), Vec(I32s(v)), test_vec_int(v)) : v \in VecInts}
    \cup {Fixture("test_vec_strings", TVec(TStr), Vec(Strs(v)), test_vec_strings(v)) :
             v \in VecStrings}
    \cup {Fixture("simple_newtype", TPHRWrapper, PHRWrapper(TestingStuff, W(0, n)),
                  simple_newtype(TestingStuff, W(0, n))) : n \in {7734, 0}}
    \cup {Fixture("simple_struct", TSimpleStruct, SimpleStruct(n, TestingStuff),
                  simple_struct(n, TestingStuff)) : n \in {1234, -1}}
    \cup {Fixture("test_map", TNoteMap, NoteMap(0, 1, 10), test_map(0, 1, 10)),
          Fixture("test_map", TNoteMap, NoteMap(11, 2, 0), test_map(11, 2, 0))}
    \cup {Fixture("vec_map_struct", TVecMapStruct, VecMapStruct(70053, <<0, 1, 2>>, 0, 1, 10),
                  vec_map_struct(70053, <<0, 1, 2>>, 0, 1, 10))}
    \cup {Fixture("empty_data_file", TDataFile, DataFile(None, None), test_num_i32(0)),
          Fixture("vec_simple_struct", TVec(TSimpleStruct),
                  Vec(<<SimpleStruct(1234, TestingStuff), SimpleStruct(-1, TestingStuff)>>),
                  test_num_i32(2) \o simple_struct(1234, TestingStuff)
                      \o simple_struct(-1, TestingStuff)),
          Fixture("empty_interval_tree", TIntervalTree,
                  Newtype(SavedAvlIntervalTree, Vec(<<>>)), empty_interval_tree)}

ShapeCases ==
    {Shape("bool", TBool, Bool(b)) : b \in BOOLEAN}
    \cup {Shape("unit", [k |-> "unit"], [k |-> "unit"]),
          Shape("tuple", [k |-> "tuple", elems |-> <<TI32, TStr>>],
                [k |-> "tuple", items |-> <<I32(5), Str(TestingStuff)>>]),
          Shape("unit_variant", TShape, [k |-> "unitvar", variant |-> Field1]),
          Shape("tuple_variant", TShape,
                [k |-> "tupvar", variant |-> Field2, items |-> <<I32(5), Str(<<>>)>>]),
          Shape("struct_variant", TShape,
                [k |-> "structvar", variant |-> Field3,
                 fields |-> <<[key |-> Field1, v |-> I32(5), skip |-> FALSE]>>]),
          Shape("note", TNote, Note(HandwrittenNoteName, Pos, W(394, 1234))),
          Shape("interval_tree", TIntervalTree,
                Newtype(SavedAvlIntervalTree,
                        Vec(<<Note(BookmarkName, Pos, W(0, 1)),
                              Note(HandwrittenNoteName, Pos, W(0, 2))>>))),
          Shape("data_file", TDataFile, DataFile(None, None)),
          Shape("data_file", TDataFile, DataFile(None, Some(Str(Pos)))),
          Shape("data_file", TDataFile,
                DataFile(Some(TupleStruct(<<I8(2), Str(Pos), I64(W(394, 5))>>)), None))}
    \cup {Shape("vec_option", TVec(TOption(TI32)), Vec(<<None, Some(I32(7))>>))}
    \cup {Shape("option_struct", TOptionStruct, OptionStruct(v, TestingStuff)) :
             v \in {None, Some(I32(7))}}
    \cup {Shape("numeric_struct", TNumericStruct, NumericStruct(n, TestingStuff)) :
             n \in {0, 1234}}
    \cup {Shape("tuple_opt_last", TOptRecord(<<TStr, TOption(TI64)>>),
                 OptRecord(<<Str(Pos), v>>)) : v \in {None, Some(I64(W(0, 1)))}}
    \cup {Shape("tuple_opt_first", TOptRecord(<<TOption(TI32), TStr>>),
                 OptRecord(<<v, Str(Pos)>>)) : v \in {None, Some(I32(7))}}
    \cup {Shape("tuple_opt_both", TOptRecord(<<TOption(TI32), TOption(TI32)>>),
                 OptRecord(<<v, w>>)) : v, w \in {None, Some(I32(7))}}

Cases == FixtureCases \cup ShapeCases

----------------------------------------------------------------------------
(* The operations on a case *)

\* test.rs: ser_no_magic(input), the serializer started on an empty output
ser_no_magic_ser(input) == serialize(input)

ser_no_magic(input) == ser_no_magic_ser(input).output

\* the bytes that may follow a complete encoding in a buffer
TrailBytes == {0, 1, 255}

RECURSIVE SeqsUpTo(_, _)
SeqsUpTo(S, n) ==
    IF n = 0 THEN {<<>>}
    ELSE LET shorter == SeqsUpTo(S, n - 1)
         IN shorter \cup {Append(q, x) : q \in shorter, x \in S}

Trails == SeqsUpTo(TrailBytes, MaxTrail)

\* the prologue with the byte at position pos changed
BadPositions == {1, 8, 9, 17}

Corrupt(magic, pos) == [magic EXCEPT ![pos] = (@ + 1) % 256]

\* test.rs: de_no_magic::<T>(input), before the unwrap
de_no_magic(input, ty) == deserialize(ty, NewDeserializer(input))

\* the names a record may carry in place of the name of its type
OtherNames == {TestingStuff, Field1, PageHistoryRecordName, SavedAvlIntervalTree}

\* the record wire of a newtype called name, with the name other in its place
Renamed(wire, name, other) ==
    <<AsU8(DtFieldBegin), 0>> \o Be16(Len(other)) \o other
        \o SubSeq(wire, Len(name) + 5, Len(wire))

\* string bodies: the first four are UTF-8, the others are not (a lone
\* continuation byte, an overlong form, a cut character, a surrogate, FF)
StringBodies ==
    {<<>>, <<65>>, NoteMagic, <<195, 169, 65>>,
     <<128>>, <<192, 128>>, <<239, 191>>, <<237, 160, 128>>, <<65, 255>>}

\* the counts declared in place of the count of a fixture, and before a body
\* that is the one byte FF. The second set is small: with Option elements
\* the reader makes as many elements as the count says from that byte.
CountsOf(c) ==
    IF c.hasWire THEN {-1, 0, 1, 2, 2147483647, -2147483647 - 1} ELSE 0..MaxCount

BodyAfterCount(c) ==
    IF c.hasWire THEN SubSeq(c.wire, 6, Len(c.wire)) ELSE <<AsU8(DtFieldEnd)>>

NoResult == [st |-> "none", val |-> NoVal, err |-> NoErr, de |-> NewDeserializer(<<>>)]

Init ==
    /\ pc = "start"
    /\ case \in Cases
    /\ output = <<>>
    /\ marks = <<>>
    /\ buf = <<>>
    /\ trail = <<>>
    /\ result = NoResult

\* to_bytevec(&value)
ToBytevec ==
    /\ pc = "start"
    /\ pc' = "serialized"
    /\ output' = to_bytevec(case.val)
    /\ marks' = to_bytevec_ser(case.val).marks
    /\ UNCHANGED <<case, buf, trail, result>>

\* ser_no_magic(value)
SerNoMagic ==
    /\ pc = "start"
    /\ pc' = "ser_no_magic"
    /\ output' = ser_no_magic(case.val)
    /\ marks' = ser_no_magic_ser(case.val).marks
    /\ UNCHANGED <<case, buf, trail, result>>

\* from_bytes::<T>(&to_bytevec(&value)): test.rs pdfannot_yjr_ser_de
FromBytesOfOutput ==
    /\ pc = "serialized"
    /\ pc' = "ser_de"
    /\ buf' = output
    /\ result' = from_bytes(output, case.ty)
    /\ UNCHANGED <<case, output, marks, trail>>

\* from_bytes::<T>(b) on the prologue, the expected bytes of a fixture and a trail
FromBytesOfFixture ==
    /\ pc = "start"
    /\ case.hasWire
    /\ \E t \in Trails :
          /\ trail' = t
          /\ buf' = MAGIC \o case.wire \o t
          /\ result' = from_bytes(MAGIC \o case.wire \o t, case.ty)
    /\ pc' = "deserialized"
    /\ UNCHANGED <<case, output, marks>>

\* to_bytevec(&from_bytes::<T>(b).unwrap()): test.rs pdfannot_yjr_de_ser
ToBytevecOfResult ==
    /\ pc = "deserialized"
    /\ result.st = "ok"
    /\ pc' = "de_ser"
    /\ output' = to_bytevec(result.val)
    /\ marks' = to_bytevec_ser(result.val).marks
    /\ UNCHANGED <<case, buf, trail, result>>

\* from_bytes::<T>(b) on a buffer whose first 17 bytes are not the prologue
FromBytesBadMagic ==
    /\ pc = "start"
    /\ \E pos \in BadPositions, n \in 0..MaxBadBody, x \in TrailBytes :
          LET b == Corrupt(MAGIC, pos) \o [i \in 1..n |-> x]
          IN /\ buf' = b
             /\ result' = from_bytes(b, case.ty)
    /\ pc' = "bad_magic"
    /\ UNCHANGED <<case, output, marks, trail>>

\* de_no_magic::<T>(bytes) on the expected bytes of a fixture and a trail: the
\* result before the unwrap, with the deserializer it leaves
DeNoMagic ==
    /\ pc = "start"
    /\ case.hasWire
    /\ \E t \in Trails :
          /\ trail' = t
          /\ buf' = case.wire \o t
          /\ result' = de_no_magic(case.wire \o t, case.ty)
    /\ pc' = "de_no_magic"
    /\ UNCHANGED <<case, output, marks>>

\* de_no_magic::<T>(&ser_no_magic(value))
DeNoMagicOfOutput ==
    /\ pc = "ser_no_magic"
    /\ pc' = "ser_de_no_magic"
    /\ buf' = output
    /\ result' = de_no_magic(output, case.ty)
    /\ UNCHANGED <<case, output, marks, trail>>

\* de_no_magic::<T>(bytes) on a buffer that starts with any byte
DeNoMagicOfTag ==
    /\ pc = "start"
    /\ \E b \in 0..255, n \in 0..MaxTagBody :
          /\ buf' = <<b>> \o [i \in 1..n |-> 0]
          /\ result' = de_no_magic(<<b>> \o [i \in 1..n |-> 0], case.ty)
    /\ pc' = "de_tag"
    /\ UNCHANGED <<case, output, marks, trail>>

\* de_no_magic::<T>(bytes) on the record of a newtype fixture under another name
DeNoMagicRenamed ==
    /\ pc = "start"
    /\ case.hasWire
    /\ case.ty.k = "newtype"
    /\ \E name \in OtherNames \ {case.ty.name} :
          /\ buf' = Renamed(case.wire, case.ty.name, name)
          /\ result' = de_no_magic(Renamed(case.wire, case.ty.name, name), case.ty)
    /\ pc' = "de_renamed"
    /\ UNCHANGED <<case, output, marks, trail>>

\* de_no_magic::<String>(bytes) on a STRING whose presence byte is any byte and
\* whose body is well-formed UTF-8 or not
DeNoMagicOfString ==
    /\ pc = "start"
    /\ case.ty.k = "str"
    /\ \E p \in 0..255, body \in StringBodies :
          /\ buf' = <<AsU8(DtString), p>> \o Be16(Len(body)) \o body
          /\ result' = de_no_magic(<<AsU8(DtString), p>> \o Be16(Len(body)) \o body, case.ty)
    /\ pc' = "de_string"
    /\ UNCHANGED <<case, output, marks, trail>>

\* de_no_magic::<T>(bytes) for a Vec, a map or a struct on a buffer that
\* declares any count before its body
DeNoMagicOfCount ==
    /\ pc = "start"
    /\ case.ty.k \in {"seq", "map", "struct"}
    /\ \E c \in CountsOf(case) :
          /\ buf' = serialize_i32(c).output \o BodyAfterCount(case)
          /\ result' = de_no_magic(serialize_i32(c).output \o BodyAfterCount(case), case.ty)
    /\ pc' = "de_count"
    /\ UNCHANGED <<case, output, marks, trail>>

\* Terminated::new(de, Some(len)) on the record of a newtype fixture, after its
\* FieldBegin and its name, and next_element called asked times on it
DeTupleStructElements ==
    /\ pc = "start"
    /\ case.hasWire
    /\ case.ty.k = "newtype"
    /\ case.ty.inner.k = "tstruct"
    /\ \E asked \in 0..(Len(case.ty.inner.elems) + 1) :
          result' =
              [asked |-> asked]
                  @@ Try(parse_type(NewDeserializer(case.wire), DtFieldBegin), LAMBDA b :
                         Try(parse_string(b.de), LAMBDA s :
                             TerminatedTake(case.ty.inner.elems, s.de,
                                            Len(case.ty.inner.elems), 0, asked, 0)))
    /\ buf' = case.wire
    /\ pc' = "de_elements"
    /\ UNCHANGED <<case, output, marks, trail>>

\* from_bytes::<T>(b) on the prologue and the expected bytes of a fixture
\* without their last cut bytes
FromBytesTruncated ==
    /\ pc = "start"
    /\ case.hasWire
    /\ \E cut \in 1..Len(case.wire) :
          /\ buf' = MAGIC \o SubSeq(case.wire, 1, Len(case.wire) - cut)
          /\ result' = from_bytes(MAGIC \o SubSeq(case.wire, 1, Len(case.wire) - cut), case.ty)
    /\ pc' = "truncated"
    /\ UNCHANGED <<case, output, marks, trail>>

Next ==
    \/ ToBytevec
    \/ SerNoMagic
    \/ FromBytesOfOutput
    \/ FromBytesOfFixture
    \/ ToBytevecOfResult
    \/ FromBytesBadMagic
    \/ DeNoMagic
    \/ DeNoMagicOfOutput
    \/ DeNoMagicOfTag
    \/ DeNoMagicRenamed
    \/ FromBytesTruncated
    \/ DeNoMagicOfString
    \/ DeNoMagicOfCount
    \/ DeTupleStructElements

Spec == Init /\ [][Next]_vars

\* The specification of the encoder on strings of every length around the
\* range of the 2-byte length: a string as a value and as the name of a record
StrLens == (1..MaxStrLen) \cup (65530..65540)

StringOfLen(n) == [i \in 1..n |-> 65]

StrCases ==
    {Shape("long_str", TStr, Str(StringOfLen(n))) : n \in StrLens}
    \cup {Shape("long_name", [k |-> "newtype", name |-> StringOfLen(n), inner |-> TBool],
                 Newtype(StringOfLen(n), Bool(TRUE))) : n \in StrLens}

InitWriteStr ==
    /\ pc = "start"
    /\ case \in StrCases
    /\ output = <<>>
    /\ marks = <<>>
    /\ buf = <<>>
    /\ trail = <<>>
    /\ result = NoResult

NextWriteStr == ToBytevec \/ SerNoMagic

SpecWriteStr == InitWriteStr /\ [][NextWriteStr]_vars

----------------------------------------------------------------------------
(* The properties *)

\* the nesting depth after the first n structural markers of a stream
RECURSIVE Depth(_, _)
Depth(m, n) == IF n = 0 THEN 0 ELSE Depth(m, n - 1) + m[n]

Balanced(m) == (\A n \in 1..Len(m) : Depth(m, n) >= 0) /\ Depth(m, Len(m)) = 0

\* the untagged body of a non-empty name: presence 0, 2-byte length, bytes
NameBody(name) == <<0>> \o Be16(Len(name)) \o name

\* the FIELD_BEGIN, name, value, FIELD_END groups of the fields of a struct
RECURSIVE FieldGroups(_)
FieldGroups(fields) ==
    IF Len(fields) = 0 THEN <<>>
    ELSE <<AsU8(DtFieldBegin)>> \o NameBody(Head(fields).key)
         \o serialize(Head(fields).v).output \o <<AsU8(DtFieldEnd)>>
         \o FieldGroups(Tail(fields))

\* the (key, value) pairs of a map, each key and each value as a tagged value
RECURSIVE EntryPairs(_)
EntryPairs(entries) ==
    IF Len(entries) = 0 THEN <<>>
    ELSE serialize(Head(entries).key).output \o serialize(Head(entries).v).output
         \o EntryPairs(Tail(entries))

\* C1: decoding the bytes to_bytevec gives for a value, with the type of the
\* value, succeeds and returns the value
RoundTripSerDe == pc = "ser_de" => result.st = "ok" /\ result.val = case.val

\* C2: encoding the value decoded from a buffer in the wire format gives the
\* buffer back, byte for byte and of the same length
RoundTripDeSer == pc = "de_ser" => Len(output) = Len(buf) /\ output = buf

\* C3: the output of to_bytevec is the 17-byte prologue followed, from offset
\* 17 on, by the encoding of the value and by nothing else
HeaderEmittedOnce ==
    pc = "serialized" =>
        /\ Len(output) >= Len(MAGIC)
        /\ SubSeq(output, 1, Len(MAGIC)) = MAGIC
        /\ SubSeq(output, Len(MAGIC) + 1, Len(output)) = ser_no_magic(case.val)

\* C4: a buffer of at least 17 bytes whose first 17 bytes are not the prologue
\* is rejected with BadMagic, whatever its length
BadMagicWhateverLength ==
    pc = "bad_magic" /\ Len(buf) >= Len(MAGIC) /\ SubSeq(buf, 1, Len(MAGIC)) # MAGIC =>
        result.st = "err" /\ result.err = BadMagic

\* C5: once from_bytes has decoded the top-level value of a buffer (a prologue,
\* the bytes of a value, a trail), it returns the value when the trail is empty,
\* the cursor being at the end of the buffer, and TrailingBytes when it is not,
\* the cursor being in front of the trail; and it succeeds in no other case
TrailingBytesRequired ==
    pc = "deserialized" =>
        /\ result.st = "ok" => trail = <<>> /\ result.de.input = <<>>
        /\ Len(buf) >= Len(MAGIC) + 5 =>
              IF trail = <<>>
              THEN result.st = "ok" /\ result.val = case.val
                   /\ result.de.counter = Len(buf)
              ELSE result.st = "err" /\ result.err = TrailingBytes
                   /\ result.de.input = trail

\* a value decoded in front of a trail of two bytes or more, and rejected
TrailingBytesRejected ==
    /\ pc = "deserialized"
    /\ case.id = "vec_map_struct"
    /\ Len(trail) >= 2
    /\ result.st = "err"
    /\ result.err = TrailingBytes

\* C6: the FIELD_BEGIN and FIELD_END markers of every stream the encoder emits
\* are balanced: the depth is never below zero and is zero at the end
MarkersBalanced == pc \in {"serialized", "ser_no_magic", "de_ser"} => Balanced(marks)

\* C7: an empty string is encoded as 03 01, a non-empty one as 03 00, the
\* 2-byte big-endian length and the bytes
EmptyStringEncoding ==
    pc = "ser_no_magic" /\ case.val.k = "str" =>
        output = IF Len(case.val.s) = 0 THEN <<3, 1>>
                 ELSE <<3, 0>> \o Be16(Len(case.val.s)) \o case.val.s

\* C8: a sequence of n elements is encoded as the INT tag, the 4-byte count n
\* and the encodings of the n elements in order, and nothing else
SeqEncoding ==
    pc = "ser_no_magic" /\ case.val.k = "seq" =>
        output = <<AsU8(DtInt)>> \o Be32(Len(case.val.items))
                 \o SerializeElements(case.val.items).output

\* C9: a struct with n present fields is encoded as the INT count n and n
\* groups of FIELD_BEGIN, name body, value, FIELD_END, in the order of the fields
StructEncoding ==
    pc = "ser_no_magic" /\ case.val.k = "struct" =>
        output = <<AsU8(DtInt)>> \o Be32(Len(Kept(case.val.fields)))
                 \o FieldGroups(Kept(case.val.fields))

\* C10: a map with NoteType keys is encoded as the INT count n and n pairs of
\* an INT-tagged key and a value, with no FIELD_BEGIN or FIELD_END
MapEncoding ==
    pc = "ser_no_magic" /\ case.val.k = "map" =>
        /\ output = <<AsU8(DtInt)>> \o Be32(Len(case.val.entries))
                    \o EntryPairs(case.val.entries)
        /\ marks = <<>>

\* the encoding a named wrapper takes from its inner value: the fields of a
\* tuple struct one after the other, any other value as it is encoded
InnerEncoding(v) ==
    IF v.k = "tstruct" THEN SerializeElements(v.items).output ELSE serialize(v).output

\* C11: a named wrapper is encoded as FIELD_BEGIN, the body of its name, its
\* inner value and one FIELD_END, an inner tuple struct giving only the
\* encodings of its fields (for PHRWrapper: the bytes of simple_newtype)
NewtypeEncoding ==
    pc = "ser_no_magic" /\ case.val.k = "newtype" =>
        /\ output = <<AsU8(DtFieldBegin)>> \o NameBody(case.val.name)
                    \o InnerEncoding(case.val.v) \o <<AsU8(DtFieldEnd)>>
        /\ case.id = "simple_newtype" => output = case.wire

\* PHRWrapper(PageHistoryRecord("testing stuff", 7734)) encoded as simple_newtype
NewtypeEncoded ==
    /\ pc = "ser_no_magic"
    /\ case.id = "simple_newtype"
    /\ case.val.v.items[2] = I64(W(0, 7734))
    /\ output = case.wire

\* the signed integer kinds and the number of payload bytes of each
IntKinds == {"i8", "i16", "i32", "i64"}

Width(kind) ==
    CASE kind = "i8" -> 1 [] kind = "i16" -> 2 [] kind = "i32" -> 4 [] kind = "i64" -> 8

\* C12: a signed integer is encoded as its tag and its big-endian payload, the
\* bytes test_num gives (2004i16 as 05 07 D4, 65555i32 as 01 00 01 00 13), and
\* the decoder given these bytes returns the integer and consumes 1 + width bytes
IntegerWireForm ==
    /\ pc = "ser_no_magic" /\ case.val.k \in IntKinds /\ case.hasWire =>
          /\ output = case.wire
          /\ Len(output) = 1 + Width(case.val.k)
          /\ case.val = I8(-1) => output = <<7, 255>>
          /\ case.val = I16(2004) => output = <<5, 7, 212>>
          /\ case.val = I32(65555) => output = <<1, 0, 1, 0, 19>>
          /\ case.val = I64(W(1, 4)) => output = <<2, 0, 0, 0, 1, 0, 0, 0, 4>>
    /\ pc = "de_no_magic" /\ case.ty.k \in IntKinds =>
          /\ result.st = "ok"
          /\ result.val = case.val
          /\ result.de.counter = 1 + Width(case.ty.k)
          /\ result.de.input = trail

\* the negative i16 -300 decoded in front of a trail
NegativeShortDecoded ==
    /\ pc = "de_no_magic"
    /\ case.val = I16(-300)
    /\ trail # <<>>
    /\ result.st = "ok"
    /\ result.val = I16(-300)

\* C13: decoding a struct from its INT count n and its n groups of FIELD_BEGIN,
\* name body, value, FIELD_END gives the struct and leaves the cursor right
\* after the n-th FIELD_END (after the 5-byte count when n = 0), so that
\* whatever follows the struct (a trail, the next struct of a sequence) is
\* still to be read
StructDecoding ==
    pc = "de_no_magic" =>
        /\ case.ty.k = "struct" =>
              /\ result.st = "ok"
              /\ result.val = case.val
              /\ result.de.counter = Len(case.wire)
              /\ result.de.input = trail
        /\ case.id = "empty_data_file" => result.de.counter = 5
        /\ case.id = "vec_simple_struct" =>
              /\ result.st = "ok"
              /\ result.val = case.val
              /\ result.de.input = trail

\* two structs of a sequence decoded one after the other, in front of a trail
StructsDecodedInSequence ==
    /\ pc = "de_no_magic"
    /\ case.id = "vec_simple_struct"
    /\ trail # <<>>
    /\ result.st = "ok"
    /\ Len(result.val.items) = 2
    /\ result.de.input = trail

\* C14: decoding a sequence or a map from its INT count n and its n entries
\* (elements, or pairs of a tagged key and a value, with no FIELD_BEGIN or
\* FIELD_END) gives the n entries in the order of the stream and consumes
\* nothing behind the n-th entry
ContainerDecoding ==
    pc = "de_no_magic" /\ case.ty.k \in {"seq", "map"} =>
        /\ result.st = "ok"
        /\ result.val = case.val
        /\ result.de.counter = Len(case.wire)
        /\ result.de.input = trail

\* the three pairs of test_map decoded in front of a trail
MapDecoded ==
    /\ pc = "de_no_magic"
    /\ case.id = "test_map"
    /\ trail # <<>>
    /\ result.st = "ok"
    /\ Len(result.val.entries) = 3
    /\ result.val.entries[1].key = NoteType(11)

\* the payload of a variant: the inner value of a newtype variant, the fields
\* of a tuple variant one after the other
VariantPayload(v) ==
    IF v.k = "tupvar" THEN SerializeElements(v.items).output ELSE InnerEncoding(v.v)

\* C15: a newtype or tuple variant is encoded as FIELD_BEGIN, the body of the
\* variant name, the payload and one FIELD_END, and the decoder consumes
\* exactly these bytes and gives the variant back
VariantFraming ==
    /\ pc = "ser_no_magic" /\ case.val.k \in {"newvar", "tupvar"} =>
          output = <<AsU8(DtFieldBegin)>> \o NameBody(case.val.variant)
                   \o VariantPayload(case.val) \o <<AsU8(DtFieldEnd)>>
    /\ pc = "ser_de_no_magic" /\ case.val.k \in {"newvar", "tupvar"} =>
          /\ result.st = "ok"
          /\ result.val = case.val
          /\ result.de.input = <<>>

\* C16: decoding an enum dispatches on the next tag and returns a value or an
\* error value in each case: a STRING gives the unit variant it names, an INT
\* and a FIELD_BEGIN give a variant or an error, any other tag gives the
\* Unexpected error carrying the tag
EnumDispatch ==
    /\ pc = "de_tag" /\ case.ty.k = "enum" /\ AsI8(buf[1]) \in DataTypes =>
          /\ result.st \in {"ok", "err"}
          /\ AsI8(buf[1]) \notin {DtString, DtInt, DtFieldBegin} =>
                result.st = "err" /\ result.err = Unexpected(AsI8(buf[1]), 0)
    /\ pc = "ser_de_no_magic" /\ case.val.k = "unitvar" =>
          result.st = "ok" /\ result.val = case.val

\* C17: a record read where a named wrapper is expected, and whose name is not
\* the name of the wrapper, is rejected with ExpectedIntervalTree
WrapperNameChecked ==
    pc = "de_renamed" => result.st = "err" /\ result.err.kind = "ExpectedIntervalTree"

\* C18: a tag byte read or peeked whose signed value is none of 0, 1, 2, 3, 4,
\* 5, 6, 7, 9, -2, -1 gives the UnknownType error carrying the byte, and a byte
\* of that set never gives it (the type () reads no tag)
UnknownTagRejected ==
    pc = "de_tag" /\ case.ty.k # "unit" =>
        IF AsI8(buf[1]) \in {0, 1, 2, 3, 4, 5, 6, 7, 9, -2, -1}
        THEN result.err.kind # "UnknownType"
        ELSE result.st = "err" /\ result.err = UnknownType(AsI8(buf[1]))
             /\ result.de.counter <= 1

\* the byte C8 (-56 as an i8) read as the tag of a sequence, and rejected
UnknownTagRead ==
    /\ pc = "de_tag"
    /\ case.ty.k = "seq"
    /\ buf[1] = 200
    /\ result.st = "err"
    /\ result.err = UnknownType(-56)

\* C19: a buffer made of the prologue and a valid encoding without its last
\* byte or bytes (cut in a payload, in a string length, in a string body or
\* between two parts) is rejected with Eof, and gives no value
TruncatedIsEof == pc = "truncated" => result.st = "err" /\ result.err = Eof

\* the string "testing stuff" without the last byte of its body, rejected by
\* the read of the body
StringBodyTruncated ==
    /\ pc = "truncated"
    /\ case.id = "test_string"
    /\ case.val = Str(TestingStuff)
    /\ Len(buf) = Len(MAGIC) + Len(case.wire) - 1
    /\ result.st = "err"
    /\ result.err = Eof
    /\ result.de.counter = Len(MAGIC) + 4

\* C20: a buffer made of the prologue and the complete encoding of a value is
\* never rejected with Eof, however short the encoding (a BYTE, a SHORT, an
\* empty STRING)
CompleteValueIsNotEof ==
    pc = "deserialized" /\ trail = <<>> => ~(result.st = "err" /\ result.err = Eof)

\* the body of the STRING of a buffer: the bytes after the tag, the presence
\* byte and the 2-byte length
BodyOf(b) == SubSeq(b, 5, Len(b))

\* C21: the decoder gives the empty string only for the presence byte 1, reads
\* a length and a body only for the presence byte 0, and rejects any other
\* presence byte with BadPresence
PresenceChecked ==
    pc = "de_string" =>
        /\ buf[2] = 1 => result.st = "ok" /\ result.val = Str(<<>>) /\ result.de.counter = 2
        /\ buf[2] = 0 /\ Utf8Valid(BodyOf(buf)) =>
              result.st = "ok" /\ result.val = Str(BodyOf(buf))
        /\ buf[2] \notin {0, 1} => result.st = "err" /\ result.err.kind = "BadPresence"

\* C22: a STRING whose body of the declared length is not UTF-8 is rejected
\* with InvalidUtf8, an error value: the decode does not abort and gives no string
InvalidUtf8IsError ==
    pc = "de_string" /\ buf[2] = 0 /\ ~Utf8Valid(BodyOf(buf)) =>
        result.st = "err" /\ result.err.kind = "InvalidUtf8"

\* C23: from_bytes ends with a value or an error value, never by aborting, and
\* every error it returns carries the byte offset at which it was detected,
\* which is at most the length of the buffer
ErrorsCarryOffset ==
    pc \in {"deserialized", "truncated", "bad_magic", "ser_de"} =>
        /\ result.st # "panic"
        /\ result.st = "err" =>
              "pos" \in DOMAIN result.err /\ result.err.pos <= Len(buf)

\* the string a case of StrCases gives to write_str
WrittenString == IF case.val.k = "str" THEN case.val.s ELSE case.val.name

\* C24: the 2-byte length that write_str puts before a non-empty string is the
\* number of bytes of the string, which follow it in full; a string of more
\* than 65535 bytes included
LengthPrefixExact ==
    pc = "ser_no_magic" /\ case \in StrCases =>
        /\ U16FromBe(SubSeq(output, 3, 4)) = Len(WrittenString)
        /\ SubSeq(output, 5, 4 + Len(WrittenString)) = WrittenString

\* the fields of a struct value whose value is not None
Present(fields) == SelectSeq(fields, LAMBDA f : f.v.k # "none")

\* C25: a field of a struct that is None gives no byte to the output, neither
\* key nor value, and the INT count of the struct is the number of fields written
AbsentFieldOmitted ==
    pc = "ser_no_magic" /\ case.val.k = "struct" =>
        output = serialize_i32(Len(Present(case.val.fields))).output
                     \o SerializeFields(Present(case.val.fields)).output

\* C26: a struct whose field names are all decimal digits is written as an INT
\* count and (INT key, value) pairs without FIELD markers, and the decoder gives
\* the value back from those bytes
NumericStructRoundTrip ==
    pc = "ser_de_no_magic" /\ case.id = "numeric_struct" =>
        /\ output = serialize_i32(2).output
                        \o serialize_i32(0).output \o serialize(case.val.fields[1].v).output
                        \o serialize_i32(10).output \o serialize(case.val.fields[2].v).output
        /\ result.st = "ok"
        /\ result.val = case.val

\* the positions of a tuple struct value that hold None before a later field
AbsentBeforeLast(items) == {i \in 1..(Len(items) - 1) : items[i].k = "none"}

\* C27: a tuple struct inside a named record whose only optional is its last
\* field decodes to the value written, the field present or absent; with an
\* absent optional before the last field the decode fails and gives no value
OptionalInTupleStruct ==
    pc = "ser_de_no_magic"
        /\ case.id \in {"tuple_opt_last", "tuple_opt_first", "tuple_opt_both"} =>
        /\ case.id = "tuple_opt_last" => result.st = "ok" /\ result.val = case.val
        /\ AbsentBeforeLast(case.val.v.items) # {} => result.st = "err"

\* the count that a buffer of the action DeNoMagicOfCount declares, as the
\* readers take it
DeclaredCount == AsUsize(I32FromBe(SubSeq(buf, 2, 5)))

\* the elements, entries or fields that a decoded value was made of
Decoded(v) ==
    CASE v.k = "seq" -> Len(v.items)
      [] v.k = "map" -> Len(v.entries)
      [] OTHER -> DeclaredCount

\* C28: whatever count the buffer declares, a decode that ends with a value
\* has made no more elements than there are bytes after the count: every turn
\* of a reading loop consumes a byte or ends the loop
WorkBoundedByBuffer ==
    pc = "de_count" /\ result.st = "ok" =>
        /\ Decoded(result.val) = DeclaredCount
        /\ Decoded(result.val) <= Len(buf) - 5

\* C29: after yielding k elements the counter of the Terminated reader is k,
\* and asked again after len elements, with FIELD_END next, the reader reports
\* the end and leaves that byte unread
TerminatedCounts ==
    pc = "de_elements" =>
        /\ result.asked <= Len(case.ty.inner.elems) =>
              /\ result.st = "ok"
              /\ result.val.yielded = result.asked
              /\ result.val.done = result.asked
        /\ result.asked = Len(case.ty.inner.elems) + 1 =>
              /\ result.st = "ok"
              /\ result.val.ended
              /\ result.val.yielded = Len(case.ty.inner.elems)
              /\ result.de.counter = Len(buf) - 1

\* the states that hold the deserializer of a decode of buf
DecodeStates ==
    {"ser_de", "deserialized", "bad_magic", "truncated", "de_no_magic", "ser_de_no_magic",
     "de_tag", "de_renamed", "de_string", "de_count", "de_elements"}

\* the states of a from_bytes that went past the header
PastHeader ==
    /\ pc \in {"ser_de", "deserialized", "bad_magic", "truncated"}
    /\ Len(buf) >= Len(MAGIC) + 5
    /\ SubSeq(buf, 1, Len(MAGIC)) = MAGIC

\* a read of n bytes by get_array or get_slice from the deserializer de: failing
\* with Eof it leaves de as it was, and succeeding it moves n bytes from the
\* unread input to the counter
ReadMovesCursor(r, de, n) ==
    IF r.st = "ok"
    THEN /\ n <= Len(de.input)
         /\ r.val = SubSeq(de.input, 1, n)
         /\ r.de.counter = de.counter + n
         /\ r.de.input = SubSeq(de.input, n + 1, Len(de.input))
    ELSE r.st = "err" /\ r.err = Eof /\ n > Len(de.input) /\ r.de = de

\* C30: after the operations of a decode of buf, the counter and the number of
\* unread bytes add up to the length of buf, the unread bytes being the end of
\* buf; the counter is at least 17 once from_bytes is past the header; a peek
\* changes neither, a read never lowers the counter, and a read that fails with
\* Eof consumes nothing
CursorInvariant ==
    pc \in DecodeStates =>
        /\ result.de.counter + Len(result.de.input) = Len(buf)
        /\ result.de.input = SubSeq(buf, result.de.counter + 1, Len(buf))
        /\ result.de.counter >= 0
        /\ PastHeader => result.de.counter >= Len(MAGIC)
        /\ peek_byte(result.de).de = result.de
        /\ peek_next_datatype(result.de).de = result.de
        /\ \A n \in 0..(Len(result.de.input) + 1) :
              /\ ReadMovesCursor(get_array(result.de, n), result.de, n)
              /\ ReadMovesCursor(get_slice(result.de, n), result.de, n)

\* a from_bytes that was stopped past the header by a read of more bytes than
\* are left, with bytes still unread
CursorAfterFailedRead ==
    /\ pc = "truncated"
    /\ result.st = "err"
    /\ result.err = Eof
    /\ result.de.counter > Len(MAGIC)
    /\ Len(result.de.input) > 0

====
